---- MODULE Spec2Model ----
(***************************************************************************)
(* Model of companies_house/src/companies_house_api_client.py: the         *)
(* CompaniesHouse client, its constructor, its request dispatch routine    *)
(* (__send_request) and its public endpoint methods.                       *)
(*                                                                         *)
(* A method call is modelled in three steps, because the call blocks in    *)
(* requests.request between building the request and getting its outcome:  *)
(*   Call_<method>   the method builds its segments and parameters and     *)
(*                   __send_request hands the request to the transport;    *)
(*   Respond         the transport answers (a response with some status,   *)
(*                   or a transport failure) and the method returns or     *)
(*                   raises;                                               *)
(*   CallerContinues the caller has taken the result and goes on.          *)
(***************************************************************************)
EXTENDS Integers, Sequences, FiniteSets, TLC

(***************************************************************************)
(* Python values.  A value carries its type, so that None, the empty       *)
(* string and the integer 0 are three different values.                    *)
(***************************************************************************)
None == [type |-> "NoneType"]
str(s) == [type |-> "str", val |-> s]
int(i) == [type |-> "int", val |-> i]

\* Python's truth value of v: None, '' and 0 are false.
bool(v) == v # None /\ v # str("") /\ v # int(0)

\* str(v) as the transport renders a parameter value.
Render(v) == IF v.type = "int" THEN ToString(v.val) ELSE v.val

(***************************************************************************)
(* Bounds and input domains.                                               *)
(***************************************************************************)
\* A run makes at most MaxCalls method calls.
MaxCalls == 2
\* A call sets at most MaxSet of its optional parameters (the others are None).
MaxSet == 1

HostValues == {None, str(""), str("https://host")}
KeyValues == {None, str(""), str("key1")}
\* Path identifiers a caller passes.
IdValues == {None, str(""), str("A"), str("B")}
\* Required search terms a caller passes.
QValues == {str("Swishfund"), str("")}
\* Values a caller gives an optional parameter it sets.
SetValues == {str("x"), str(""), int(0)}
\* Status codes the remote answers with, and the failures of the transport.
StatusCodes == {200, 404, 500}
TransportErrors == {"ConnectionError", "Timeout"}

\* The keyword arguments over keys with at most MaxSet of them set.
KwargsOver(keys) ==
    { [k \in keys |-> IF k \in DOMAIN a THEN a[k] ELSE None] :
        a \in UNION { [S -> SetValues] :
                        S \in {T \in SUBSET keys : Cardinality(T) <= MaxSet} } }

NoClient == [type |-> "NoClient"]
NoCall == [method |-> "none"]
NoResult == [kind |-> "none"]
NoOutcome == [kind |-> "none"]

VARIABLES
    environ,    \* os.environ after load_dotenv(): the two variables the client reads
    APIpaths,   \* the class attributes of APIpaths
    ch,         \* the client object the constructor returned, or NoClient
    ctor,       \* the last constructor call: what it raised and the object it built
    pc,         \* "idle", "waiting" (blocked in requests.request), "returned"
    call,       \* the method call in progress: method, arguments, __send_request's frame
    wire,       \* the requests the call in progress handed to the transport
    outcome,    \* what the transport did with the request of the call in progress
    result,     \* what the method gave its caller: a returned value or a raised exception
    calls,      \* number of public method calls made
    sent,       \* number of requests handed to the transport
    log         \* how each finished call ended, oldest first: "return" or "raise"

vars == <<environ, APIpaths, ch, ctor, pc, call, wire, outcome, result, calls, sent,
          log>>

(***************************************************************************)
(* class APIpaths                                                          *)
(***************************************************************************)
APIpathsTable ==
    [ company |-> str("company"),
      officers |-> str("officers"),
      registers |-> str("registers"),
      charges |-> str("charges"),
      exemptions |-> str("exemptions"),
      filing_history |-> str("filing-history"),
      insolvency |-> str("insolvency"),
      disqualifications_corporate |-> str("disqualified-officers/corporate"),
      disqualifications_natulal |-> str("disqualified-officers/natural"),
      uk_establishments |-> str("uk-establishments"),
      persons_with_significant_control |-> str("persons-with-significant-control"),
      persons_with_significant_control_statements |->
          str("persons-with-significant-control-statements"),
      super_secure |-> str("super-secure"),
      super_secure_beneficial_owner |-> str("super-secure-beneficial-owner"),
      legal_person |-> str("legal-person"),
      legal_person_beneficial_owner |-> str("legal-person-beneficial-owner"),
      individual |-> str("individual"),
      individual_beneficial_owner |-> str("individual-beneficial-owner"),
      corporate_entity |-> str("corporate-entity"),
      corporate_entity_beneficial_owner |-> str("corporate-entity-beneficial-owner"),
      appointments |-> str("appointments"),
      advanced_company_search |-> str("advanced-search/companies"),
      search_all |-> str("search"),
      search_companies |-> str("search/companies"),
      search_officers |-> str("search/officers"),
      search_disqualified_officers |-> str("search/disqualified-officers"),
      search_companies_alphabetically |-> str("alphabetic-search/companies"),
      search_dissolved_companies |-> str("dissolved-search/companies") ]

(***************************************************************************)
(* CompaniesHouse.__init__                                                 *)
(***************************************************************************)
\* os.getenv(name): the value of the variable, None when it is not set.
getenv(name) == environ[name]

\* Mutants: the check written `is None`, which lets the empty string through.
HostNotSet_IsNone(host) == host = None
ApiKeyNotSet_IsNone(api_key) == api_key = None

\* `not self.host`, `not self.api_key`
HostNotSet(host) == ~bool(host)
ApiKeyNotSet(api_key) == ~bool(api_key)

\* self.headers = {'Authorization': self.api_key}
Headers(api_key) == [Authorization |-> api_key]

\* The constructor: the exception it raises ("" when none) and the object it
\* has built so far.
CompaniesHouse_init ==
    LET host == getenv("COMPANIES_HOUSE_HOST")
        api_key == getenv("COMPANIES_HOUSE_APIKEY")
    IN  IF HostNotSet(host)
          THEN [raised |-> "ValueError",
                self |-> [host |-> host, api_key |-> api_key]]
        ELSE IF ApiKeyNotSet(api_key)
          THEN [raised |-> "ValueError",
                self |-> [host |-> host, api_key |-> api_key]]
        ELSE [raised |-> "",
              self |-> [host |-> host, api_key |-> api_key,
                        headers |-> Headers(api_key)]]

(***************************************************************************)
(* CompaniesHouse.__send_request                                           *)
(***************************************************************************)
\* ''.join(['/' + r for r in res if r is not None])
\* Mutant: every segment is joined, an absent one as the text of None.
RECURSIVE JoinSegments_KeepNone(_)
JoinSegments_KeepNone(res) ==
    IF res = <<>> THEN ""
    ELSE "/" \o (IF Head(res) # None THEN Head(res).val ELSE "None")
         \o JoinSegments_KeepNone(Tail(res))

RECURSIVE JoinSegments(_)
JoinSegments(res) ==
    IF res = <<>> THEN ""
    ELSE (IF Head(res) # None THEN "/" \o Head(res).val ELSE "")
         \o JoinSegments(Tail(res))

\* The query parameters the transport puts in the URL for params=params: the
\* (key, value) pairs in the mapping's order, a pair whose value is None left out.
RECURSIVE EncodeParams(_)
EncodeParams(params) ==
    IF params = <<>> THEN <<>>
    ELSE (IF Head(params)[2] # None
            THEN << <<Head(params)[1], Render(Head(params)[2])>> >>
            ELSE <<>>)
         \o EncodeParams(Tail(params))

\* requests.request(request_type, url, headers=self.headers, params=params):
\* the request the transport sends.  No data, json or files argument is given.
requests_request(request_type, url, headers, params) ==
    [method |-> request_type, url |-> url, headers |-> headers,
     params |-> EncodeParams(params), body |-> None]

\* Mutant: the Authorization header is built from the environment at send time.
send_request_EnvKey(self, request_type, res, params) ==
    IF self.host = None
      THEN [frame |-> [request_type |-> request_type, res |-> res, params |-> params],
            raised |-> "ValueError", sent |-> <<>>]
    ELSE [frame |-> [request_type |-> request_type, res |-> res, params |-> params],
          raised |-> "",
          sent |-> << requests_request(request_type,
                                       self.host.val \o JoinSegments(res),
                                       Headers(getenv("COMPANIES_HOUSE_APIKEY")),
                                       params) >>]

\* Mutant: a None among the segments is rejected before anything is sent.
send_request_RejectsNone(self, request_type, res, params) ==
    IF self.host = None \/ \E i \in 1..Len(res) : res[i] = None
      THEN [frame |-> [request_type |-> request_type, res |-> res, params |-> params],
            raised |-> "ValueError", sent |-> <<>>]
    ELSE [frame |-> [request_type |-> request_type, res |-> res, params |-> params],
          raised |-> "",
          sent |-> << requests_request(request_type,
                                       self.host.val \o JoinSegments(res),
                                       self.headers, params) >>]

\* __send_request up to the point where it blocks in requests.request: its
\* frame, the exception it raises before sending ("" when none) and the
\* requests it hands to the transport.
send_request(self, request_type, res, params) ==
    IF self.host = None
      THEN [frame |-> [request_type |-> request_type, res |-> res, params |-> params],
            raised |-> "ValueError", sent |-> <<>>]
    ELSE [frame |-> [request_type |-> request_type, res |-> res, params |-> params],
          raised |-> "",
          sent |-> << requests_request(request_type,
                                       self.host.val \o JoinSegments(res),
                                       self.headers, params) >>]

\* Mutant: a status code of 400 or more is raised as an error
\* (response.raise_for_status()).
send_request_return_RaiseForStatus(o) ==
    IF o.kind = "response"
      THEN IF o.response.status_code >= 400
             THEN [kind |-> "raise", exc |-> "HTTPError"]
           ELSE [kind |-> "return", value |-> o.response]
    ELSE [kind |-> "raise", exc |-> o.exc]

\* Mutant: a transport failure is caught and None is returned.
send_request_return_Swallow(o) ==
    IF o.kind = "response"
      THEN [kind |-> "return", value |-> o.response]
    ELSE [kind |-> "return", value |-> None]

\* __send_request from the point where requests.request ends: `return response`,
\* and an exception of requests.request is not caught.
send_request_return(o) ==
    IF o.kind = "response"
      THEN [kind |-> "return", value |-> o.response]
    ELSE [kind |-> "raise", exc |-> o.exc]

(***************************************************************************)
(* The public methods: each gives what its __send_request call gives.      *)
(***************************************************************************)
get_company_profile(self, company_number) ==
    send_request(self, "GET", <<APIpaths.company, company_number>>, <<>>)

\* Mutant: a page size is invented when the caller gives none.
advanced_company_search_Defaults(self, company_name_includes, company_name_excludes, company_status, company_subtype, company_type, dissolved_from, dissolved_to, incorporated_from, incorporated_to, location, sic_codes, size, start_index) ==
    send_request(self, "GET", <<APIpaths.advanced_company_search>>,
                 << <<"company_name_includes", company_name_includes>>,
                    <<"company_name_excludes", company_name_excludes>>,
                    <<"company_status", company_status>>,
                    <<"company_subtype", company_subtype>>,
                    <<"company_type", company_type>>,
                    <<"dissolved_from", dissolved_from>>,
                    <<"dissolved_to", dissolved_to>>,
                    <<"incorporated_from", incorporated_from>>,
                    <<"incorporated_to", incorporated_to>>,
                    <<"location", location>>,
                    <<"sic_codes", sic_codes>>,
                    <<"size", IF size = None THEN int(20) ELSE size>>,
                    <<"start_index", start_index>> >>)

advanced_company_search(self, company_name_includes, company_name_excludes, company_status, company_subtype, company_type, dissolved_from, dissolved_to, incorporated_from, incorporated_to, location, sic_codes, size, start_index) ==
    send_request(self, "GET", <<APIpaths.advanced_company_search>>,
                 << <<"company_name_includes", company_name_includes>>,
                    <<"company_name_excludes", company_name_excludes>>,
                    <<"company_status", company_status>>,
                    <<"company_subtype", company_subtype>>,
                    <<"company_type", company_type>>,
                    <<"dissolved_from", dissolved_from>>,
                    <<"dissolved_to", dissolved_to>>,
                    <<"incorporated_from", incorporated_from>>,
                    <<"incorporated_to", incorporated_to>>,
                    <<"location", location>>,
                    <<"sic_codes", sic_codes>>,
                    <<"size", size>>,
                    <<"start_index", start_index>> >>)

\* Mutant: an argument that is falsy (0 or the empty string) is treated as
\* not given.
search_all_DropsFalsy(self, q, items_per_page, start_index) ==
    send_request(self, "GET", <<APIpaths.search_all>>,
                 << <<"q", IF bool(q) THEN q ELSE None>>,
                    <<"items_per_page", IF bool(items_per_page) THEN items_per_page ELSE None>>,
                    <<"start_index", IF bool(start_index) THEN start_index ELSE None>> >>)

search_all(self, q, items_per_page, start_index) ==
    send_request(self, "GET", <<APIpaths.search_all>>,
                 << <<"q", q>>,
                    <<"items_per_page", items_per_page>>,
                    <<"start_index", start_index>> >>)

\* Mutant: an unset items_per_page is sent with an invented default.
search_companies_Defaults(self, q, items_per_page, start_index, restrictions) ==
    send_request(self, "GET", <<APIpaths.search_companies>>,
                 << <<"q", q>>,
                    <<"items_per_page",
                      IF items_per_page = None THEN int(20) ELSE items_per_page>>,
                    <<"start_index", start_index>>,
                    <<"restrictions", restrictions>> >>)

search_companies(self, q, items_per_page, start_index, restrictions) ==
    send_request(self, "GET", <<APIpaths.search_companies>>,
                 << <<"q", q>>,
                    <<"items_per_page", items_per_page>>,
                    <<"start_index", start_index>>,
                    <<"restrictions", restrictions>> >>)

search_officers(self, q, items_per_page, start_index) ==
    send_request(self, "GET", <<APIpaths.search_officers>>,
                 << <<"q", q>>,
                    <<"items_per_page", items_per_page>>,
                    <<"start_index", start_index>> >>)

search_disqualified_officers(self, q, items_per_page, start_index) ==
    send_request(self, "GET", <<APIpaths.search_disqualified_officers>>,
                 << <<"q", q>>,
                    <<"items_per_page", items_per_page>>,
                    <<"start_index", start_index>> >>)

search_companies_alphabetically(self, q, search_above, search_below, size) ==
    send_request(self, "GET", <<APIpaths.search_companies_alphabetically>>,
                 << <<"q", q>>,
                    <<"search_above", search_above>>,
                    <<"search_below", search_below>>,
                    <<"size", size>> >>)

search_dissolved_companies(self, q, search_type, search_above, search_below, size, start_index) ==
    send_request(self, "GET", <<APIpaths.search_dissolved_companies>>,
                 << <<"q", q>>,
                    <<"search_type", search_type>>,
                    <<"search_above", search_above>>,
                    <<"search_below", search_below>>,
                    <<"size", size>>,
                    <<"start_index", start_index>> >>)

\* Mutant: register_type is checked against the values the remote service
\* documents before anything is sent.
get_officers_Validates(self, company_number, items_per_page, register_type, register_view, start_index, order_by) ==
    IF register_type \in {None, str("directors"), str("secretaries"), str("llp-members")}
      THEN send_request(self, "GET", <<APIpaths.company, company_number, APIpaths.officers>>,
                        << <<"items_per_page", items_per_page>>,
                           <<"register_type", register_type>>,
                           <<"register_view", register_view>>,
                           <<"start_index", start_index>>,
                           <<"order_by", order_by>> >>)
    ELSE [frame |-> [request_type |-> "GET",
                     res |-> <<APIpaths.company, company_number, APIpaths.officers>>,
                     params |-> <<>>],
          raised |-> "ValueError", sent |-> <<>>]

get_officers(self, company_number, items_per_page, register_type, register_view, start_index, order_by) ==
    send_request(self, "GET", <<APIpaths.company, company_number, APIpaths.officers>>,
                 << <<"items_per_page", items_per_page>>,
                    <<"register_type", register_type>>,
                    <<"register_view", register_view>>,
                    <<"start_index", start_index>>,
                    <<"order_by", order_by>> >>)

\* Mutant: the officer id and the appointment id change places.
get_company_officer_appointment_Swapped(self, company_number, officer_id, appointment_id) ==
    send_request(self, "GET",
                 <<APIpaths.company, company_number,
                   APIpaths.officers, appointment_id,
                   APIpaths.appointments, officer_id>>, <<>>)

get_company_officer_appointment(self, company_number, officer_id, appointment_id) ==
    send_request(self, "GET",
                 <<APIpaths.company, company_number,
                   APIpaths.officers, officer_id,
                   APIpaths.appointments, appointment_id>>, <<>>)

get_company_registers(self, company_number) ==
    send_request(self, "GET",
                 <<APIpaths.company, company_number, APIpaths.registers>>, <<>>)

get_comapany_charges(self, company_number) ==
    send_request(self, "GET",
                 <<APIpaths.company, company_number, APIpaths.charges>>, <<>>)

\* Mutant: the company number is passed once (company/{number}/charges/{id}).
get_company_charge_Once(self, company_number, charge_id) ==
    send_request(self, "GET",
                 <<APIpaths.company, company_number,
                   APIpaths.charges, charge_id>>, <<>>)

get_company_charge(self, company_number, charge_id) ==
    send_request(self, "GET",
                 <<APIpaths.company, company_number,
                   company_number, APIpaths.charges, charge_id>>, <<>>)

get_company_filing_history(self, company_number, category, items_per_page, start_index) ==
    send_request(self, "GET",
                 <<APIpaths.company, company_number, APIpaths.filing_history>>,
                 << <<"category", category>>,
                    <<"items_per_page", items_per_page>>,
                    <<"start_index", start_index>> >>)

get_company_filing_history_item(self, company_number, transaction_id) ==
    send_request(self, "GET",
                 <<APIpaths.company, company_number,
                   APIpaths.filing_history, transaction_id>>, <<>>)

get_company_insolvency_information(self, company_number) ==
    send_request(self, "GET",
                 <<APIpaths.company, company_number, APIpaths.insolvency>>, <<>>)

get_company_exemptions_information(self, company_number) ==
    send_request(self, "GET",
                 <<APIpaths.company, company_number, APIpaths.exemptions>>, <<>>)

get_cooporate_officer_disqualifications(self, officer_id) ==
    send_request(self, "GET",
                 <<APIpaths.officers, APIpaths.disqualifications_corporate,
                   officer_id>>, <<>>)

get_natural_officer_disqualifications(self, officer_id) ==
    send_request(self, "GET",
                 <<APIpaths.officers, APIpaths.disqualifications_natulal,
                   officer_id>>, <<>>)

get_officer_appointments(self, officer_id, items_per_page, start_index) ==
    send_request(self, "GET",
                 <<APIpaths.officers, officer_id, APIpaths.appointments>>,
                 << <<"items_per_page", items_per_page>>,
                    <<"start_index", start_index>> >>)

get_company_uk_enstablishment(self, company_number) ==
    send_request(self, "GET",
                 <<APIpaths.company, company_number, APIpaths.uk_establishments>>,
                 <<>>)

get_persons_with_significant_control(self, company_number, items_per_page, start_index, register_view) ==
    send_request(self, "GET",
                 <<APIpaths.company, company_number,
                   APIpaths.persons_with_significant_control>>,
                 << <<"items_per_page", items_per_page>>,
                    <<"start_index", start_index>>,
                    <<"register_view", register_view>> >>)

get_persons_with_significant_control_statements(self, company_number, items_per_page, start_index, register_view) ==
    send_request(self, "GET",
                 <<APIpaths.company, company_number,
                   APIpaths.persons_with_significant_control_statements>>,
                 << <<"items_per_page", items_per_page>>,
                    <<"start_index", start_index>>,
                    <<"register_view", register_view>> >>)

get_the_super_secure_person_with_significant_control(self, company_number, super_secure_id) ==
    send_request(self, "GET",
                 <<APIpaths.company, company_number,
                   APIpaths.persons_with_significant_control, super_secure_id>>,
                 <<>>)

get_the_super_secure_beneficial_owner(self, company_number, super_secure_id) ==
    send_request(self, "GET",
                 <<APIpaths.company, company_number,
                   APIpaths.super_secure_beneficial_owner, super_secure_id>>,
                 <<>>)

get_person_with_significant_control_statement(self, company_number, statement_id) ==
    send_request(self, "GET",
                 <<APIpaths.company, company_number,
                   APIpaths.persons_with_significant_control_statements,
                   statement_id>>, <<>>)

get_legal_person_with_significant_control(self, company_number, psc_id) ==
    send_request(self, "GET",
                 <<APIpaths.company, company_number,
                   APIpaths.persons_with_significant_control,
                   APIpaths.legal_person, psc_id>>, <<>>)

get_legal_person_beneficial_owner(self, company_number, psc_id) ==
    send_request(self, "GET",
                 <<APIpaths.company, company_number,
                   APIpaths.persons_with_significant_control,
                   APIpaths.legal_person_beneficial_owner, psc_id>>, <<>>)

get_individual_person_with_significant_control(self, company_number, psc_id) ==
    send_request(self, "GET",
                 <<APIpaths.company, company_number,
                   APIpaths.persons_with_significant_control,
                   APIpaths.individual, psc_id>>, <<>>)

get_individual_beneficial_owner(self, company_number, psc_id) ==
    send_request(self, "GET",
                 <<APIpaths.company, company_number,
                   APIpaths.persons_with_significant_control,
                   APIpaths.individual_beneficial_owner, psc_id>>, <<>>)

get_corporate_entity_with_significant_control(self, company_number, psc_id) ==
    send_request(self, "GET",
                 <<APIpaths.company, company_number,
                   APIpaths.persons_with_significant_control,
                   APIpaths.corporate_entity, psc_id>>, <<>>)

get_corporate_entity_beneficial_owner(self, company_number, psc_id) ==
    send_request(self, "GET",
                 <<APIpaths.company, company_number,
                   APIpaths.persons_with_significant_control,
                   APIpaths.corporate_entity_beneficial_owner, psc_id>>, <<>>)

(***************************************************************************)
(* The callers' inputs: the keyword arguments of each method that has      *)
(* optional parameters.                                                    *)
(***************************************************************************)
advanced_company_search_kwargs ==
    KwargsOver({"company_name_includes", "company_name_excludes", "company_status", "company_subtype", "company_type", "dissolved_from", "dissolved_to", "incorporated_from", "incorporated_to", "location", "sic_codes", "size", "start_index"})

search_all_kwargs ==
    KwargsOver({"items_per_page", "start_index"})

search_companies_kwargs ==
    KwargsOver({"items_per_page", "start_index", "restrictions"})

search_officers_kwargs ==
    KwargsOver({"items_per_page", "start_index"})

search_disqualified_officers_kwargs ==
    KwargsOver({"items_per_page", "start_index"})

search_companies_alphabetically_kwargs ==
    KwargsOver({"search_above", "search_below", "size"})

search_dissolved_companies_kwargs ==
    KwargsOver({"search_above", "search_below", "size", "start_index"})

get_officers_kwargs ==
    KwargsOver({"items_per_page", "register_type", "register_view", "start_index", "order_by"})

get_company_filing_history_kwargs ==
    KwargsOver({"category", "items_per_page", "start_index"})

get_officer_appointments_kwargs ==
    KwargsOver({"items_per_page", "start_index"})

get_persons_with_significant_control_kwargs ==
    KwargsOver({"items_per_page", "start_index", "register_view"})

get_persons_with_significant_control_statements_kwargs ==
    KwargsOver({"items_per_page", "start_index", "register_view"})

Outcomes ==
    { [kind |-> "response", response |-> [status_code |-> s]] : s \in StatusCodes }
    \cup { [kind |-> "error", exc |-> e] : e \in TransportErrors }

(***************************************************************************)
(* Actions                                                                 *)
(***************************************************************************)
Init ==
    /\ environ \in [COMPANIES_HOUSE_HOST : HostValues,
                    COMPANIES_HOUSE_APIKEY : KeyValues]
    /\ APIpaths = APIpathsTable
    /\ ch = NoClient
    /\ ctor = [called |-> FALSE]
    /\ pc = "idle"
    /\ call = NoCall
    /\ wire = <<>>
    /\ outcome = NoOutcome
    /\ result = NoResult
    /\ calls = 0
    /\ sent = 0
    /\ log = <<>>

\* The process sets or removes one of the two environment variables.
SetEnv ==
    /\ pc = "idle"
    /\ \/ \E v \in HostValues \ {environ.COMPANIES_HOUSE_HOST} :
            environ' = [environ EXCEPT !.COMPANIES_HOUSE_HOST = v]
       \/ \E v \in KeyValues \ {environ.COMPANIES_HOUSE_APIKEY} :
            environ' = [environ EXCEPT !.COMPANIES_HOUSE_APIKEY = v]
    /\ UNCHANGED <<APIpaths, ch, ctor, pc, call, wire, outcome, result, calls, sent,
                   log>>

\* ch = CompaniesHouse(): the caller gets the object only if __init__ raises
\* nothing.  The model follows one client: the constructor is called again
\* only as long as it has raised.
Construct ==
    /\ pc = "idle"
    /\ ch = NoClient
    /\ LET c == CompaniesHouse_init
       IN  /\ ctor' = [called |-> TRUE, raised |-> c.raised, self |-> c.self]
           /\ ch' = IF c.raised = "" THEN c.self ELSE NoClient
    /\ UNCHANGED <<environ, APIpaths, pc, call, wire, outcome, result, calls, sent,
                   log>>

\* The caller holds a client and is not inside a call.
CanCall ==
    /\ pc = "idle"
    /\ ch # NoClient
    /\ calls < MaxCalls

\* Mutant: every call reads the key again from the environment into the client.
Invoke_ReloadsConfig(method, ids, given, r) ==
    /\ call' = [method |-> method, ids |-> ids, given |-> given, frame |-> r.frame]
    /\ wire' = r.sent
    /\ sent' = sent + Len(r.sent)
    /\ calls' = calls + 1
    /\ outcome' = NoOutcome
    /\ IF r.raised = ""
         THEN /\ pc' = "waiting"
              /\ result' = NoResult
       ELSE /\ pc' = "returned"
            /\ result' = [kind |-> "raise", exc |-> r.raised]
    /\ log' = IF r.raised = "" THEN log ELSE Append(log, "raise")
    /\ ch' = [ch EXCEPT !.api_key = getenv("COMPANIES_HOUSE_APIKEY"),
                        !.headers = Headers(getenv("COMPANIES_HOUSE_APIKEY"))]
    /\ UNCHANGED <<environ, APIpaths, ctor>>

\* A public method is called with path identifiers ids and named query
\* arguments given; r is what the method's __send_request call gives.
Invoke(method, ids, given, r) ==
    /\ call' = [method |-> method, ids |-> ids, given |-> given, frame |-> r.frame]
    /\ wire' = r.sent
    /\ sent' = sent + Len(r.sent)
    /\ calls' = calls + 1
    /\ outcome' = NoOutcome
    /\ IF r.raised = ""
         THEN /\ pc' = "waiting"
              /\ result' = NoResult
       ELSE /\ pc' = "returned"
            /\ result' = [kind |-> "raise", exc |-> r.raised]
    /\ log' = IF r.raised = "" THEN log ELSE Append(log, "raise")
    /\ UNCHANGED <<environ, APIpaths, ch, ctor>>

Call_get_company_profile ==
    /\ CanCall
    /\ \E company_number \in IdValues :
            Invoke("get_company_profile", <<company_number>>,
                   <<>>,
                   get_company_profile(ch, company_number))

Call_advanced_company_search ==
    /\ CanCall
    /\ \E kw \in advanced_company_search_kwargs :
            Invoke("advanced_company_search", <<>>,
                   kw,
                   advanced_company_search(ch, kw.company_name_includes,
                   kw.company_name_excludes, kw.company_status,
                   kw.company_subtype, kw.company_type, kw.dissolved_from,
                   kw.dissolved_to, kw.incorporated_from,
                   kw.incorporated_to, kw.location, kw.sic_codes, kw.size,
                   kw.start_index))

Call_search_all ==
    /\ CanCall
    /\ \E q \in QValues :
       \E kw \in search_all_kwargs :
            Invoke("search_all", <<>>,
                   ("q" :> q) @@ kw,
                   search_all(ch, q, kw.items_per_page, kw.start_index))

Call_search_companies ==
    /\ CanCall
    /\ \E q \in QValues :
       \E kw \in search_companies_kwargs :
            Invoke("search_companies", <<>>,
                   ("q" :> q) @@ kw,
                   search_companies(ch, q, kw.items_per_page, kw.start_index,
                   kw.restrictions))

Call_search_officers ==
    /\ CanCall
    /\ \E q \in QValues :
       \E kw \in search_officers_kwargs :
            Invoke("search_officers", <<>>,
                   ("q" :> q) @@ kw,
                   search_officers(ch, q, kw.items_per_page, kw.start_index))

Call_search_disqualified_officers ==
    /\ CanCall
    /\ \E q \in QValues :
       \E kw \in search_disqualified_officers_kwargs :
            Invoke("search_disqualified_officers", <<>>,
                   ("q" :> q) @@ kw,
                   search_disqualified_officers(ch, q, kw.items_per_page, kw.start_index))

Call_search_companies_alphabetically ==
    /\ CanCall
    /\ \E q \in QValues :
       \E kw \in search_companies_alphabetically_kwargs :
            Invoke("search_companies_alphabetically", <<>>,
                   ("q" :> q) @@ kw,
                   search_companies_alphabetically(ch, q, kw.search_above,
                   kw.search_below, kw.size))

Call_search_dissolved_companies ==
    /\ CanCall
    /\ \E q, search_type \in QValues :
       \E kw \in search_dissolved_companies_kwargs :
            Invoke("search_dissolved_companies", <<>>,
                   ("q" :> q) @@ ("search_type" :> search_type) @@ kw,
                   search_dissolved_companies(ch, q, search_type, kw.search_above,
                   kw.search_below, kw.size, kw.start_index))

Call_get_officers ==
    /\ CanCall
    /\ \E company_number \in IdValues :
       \E kw \in get_officers_kwargs :
            Invoke("get_officers", <<company_number>>,
                   kw,
                   get_officers(ch, company_number, kw.items_per_page, kw.register_type,
                   kw.register_view, kw.start_index, kw.order_by))

Call_get_company_officer_appointment ==
    /\ CanCall
    /\ \E company_number, officer_id, appointment_id \in IdValues :
            Invoke("get_company_officer_appointment", <<company_number, officer_id, appointment_id>>,
                   <<>>,
                   get_company_officer_appointment(ch, company_number, officer_id,
                   appointment_id))

Call_get_company_registers ==
    /\ CanCall
    /\ \E company_number \in IdValues :
            Invoke("get_company_registers", <<company_number>>,
                   <<>>,
                   get_company_registers(ch, company_number))

Call_get_comapany_charges ==
    /\ CanCall
    /\ \E company_number \in IdValues :
            Invoke("get_comapany_charges", <<company_number>>,
                   <<>>,
                   get_comapany_charges(ch, company_number))

Call_get_company_charge ==
    /\ CanCall
    /\ \E company_number, charge_id \in IdValues :
            Invoke("get_company_charge", <<company_number, charge_id>>,
                   <<>>,
                   get_company_charge(ch, company_number, charge_id))

Call_get_company_filing_history ==
    /\ CanCall
    /\ \E company_number \in IdValues :
       \E kw \in get_company_filing_history_kwargs :
            Invoke("get_company_filing_history", <<company_number>>,
                   kw,
                   get_company_filing_history(ch, company_number, kw.category,
                   kw.items_per_page, kw.start_index))

Call_get_company_filing_history_item ==
    /\ CanCall
    /\ \E company_number, transaction_id \in IdValues :
            Invoke("get_company_filing_history_item", <<company_number, transaction_id>>,
                   <<>>,
                   get_company_filing_history_item(ch, company_number, transaction_id))

Call_get_company_insolvency_information ==
    /\ CanCall
    /\ \E company_number \in IdValues :
            Invoke("get_company_insolvency_information", <<company_number>>,
                   <<>>,
                   get_company_insolvency_information(ch, company_number))

Call_get_company_exemptions_information ==
    /\ CanCall
    /\ \E company_number \in IdValues :
            Invoke("get_company_exemptions_information", <<company_number>>,
                   <<>>,
                   get_company_exemptions_information(ch, company_number))

Call_get_cooporate_officer_disqualifications ==
    /\ CanCall
    /\ \E officer_id \in IdValues :
            Invoke("get_cooporate_officer_disqualifications", <<officer_id>>,
                   <<>>,
                   get_cooporate_officer_disqualifications(ch, officer_id))

Call_get_natural_officer_disqualifications ==
    /\ CanCall
    /\ \E officer_id \in IdValues :
            Invoke("get_natural_officer_disqualifications", <<officer_id>>,
                   <<>>,
                   get_natural_officer_disqualifications(ch, officer_id))

Call_get_officer_appointments ==
    /\ CanCall
    /\ \E officer_id \in IdValues :
       \E kw \in get_officer_appointments_kwargs :
            Invoke("get_officer_appointments", <<officer_id>>,
                   kw,
                   get_officer_appointments(ch, officer_id, kw.items_per_page,
                   kw.start_index))

Call_get_company_uk_enstablishment ==
    /\ CanCall
    /\ \E company_number \in IdValues :
            Invoke("get_company_uk_enstablishment", <<company_number>>,
                   <<>>,
                   get_company_uk_enstablishment(ch, company_number))

Call_get_persons_with_significant_control ==
    /\ CanCall
    /\ \E company_number \in IdValues :
       \E kw \in get_persons_with_significant_control_kwargs :
            Invoke("get_persons_with_significant_control", <<company_number>>,
                   kw,
                   get_persons_with_significant_control(ch, company_number,
                   kw.items_per_page, kw.start_index, kw.register_view))

Call_get_persons_with_significant_control_statements ==
    /\ CanCall
    /\ \E company_number \in IdValues :
       \E kw \in get_persons_with_significant_control_statements_kwargs :
            Invoke("get_persons_with_significant_control_statements", <<company_number>>,
                   kw,
                   get_persons_with_significant_control_statements(ch, company_number,
                   kw.items_per_page, kw.start_index, kw.register_view))

Call_get_the_super_secure_person_with_significant_control ==
    /\ CanCall
    /\ \E company_number, super_secure_id \in IdValues :
            Invoke("get_the_super_secure_person_with_significant_control", <<company_number, super_secure_id>>,
                   <<>>,
                   get_the_super_secure_person_with_significant_control(ch,
                   company_number, super_secure_id))

Call_get_the_super_secure_beneficial_owner ==
    /\ CanCall
    /\ \E company_number, super_secure_id \in IdValues :
            Invoke("get_the_super_secure_beneficial_owner", <<company_number, super_secure_id>>,
                   <<>>,
                   get_the_super_secure_beneficial_owner(ch, company_number,
                   super_secure_id))

Call_get_person_with_significant_control_statement ==
    /\ CanCall
    /\ \E company_number, statement_id \in IdValues :
            Invoke("get_person_with_significant_control_statement", <<company_number, statement_id>>,
                   <<>>,
                   get_person_with_significant_control_statement(ch, company_number,
                   statement_id))

Call_get_legal_person_with_significant_control ==
    /\ CanCall
    /\ \E company_number, psc_id \in IdValues :
            Invoke("get_legal_person_with_significant_control", <<company_number, psc_id>>,
                   <<>>,
                   get_legal_person_with_significant_control(ch, company_number, psc_id))

Call_get_legal_person_beneficial_owner ==
    /\ CanCall
    /\ \E company_number, psc_id \in IdValues :
            Invoke("get_legal_person_beneficial_owner", <<company_number, psc_id>>,
                   <<>>,
                   get_legal_person_beneficial_owner(ch, company_number, psc_id))

Call_get_individual_person_with_significant_control ==
    /\ CanCall
    /\ \E company_number, psc_id \in IdValues :
            Invoke("get_individual_person_with_significant_control", <<company_number, psc_id>>,
                   <<>>,
                   get_individual_person_with_significant_control(ch, company_number,
                   psc_id))

Call_get_individual_beneficial_owner ==
    /\ CanCall
    /\ \E company_number, psc_id \in IdValues :
            Invoke("get_individual_beneficial_owner", <<company_number, psc_id>>,
                   <<>>,
                   get_individual_beneficial_owner(ch, company_number, psc_id))

Call_get_corporate_entity_with_significant_control ==
    /\ CanCall
    /\ \E company_number, psc_id \in IdValues :
            Invoke("get_corporate_entity_with_significant_control", <<company_number, psc_id>>,
                   <<>>,
                   get_corporate_entity_with_significant_control(ch, company_number,
                   psc_id))

Call_get_corporate_entity_beneficial_owner ==
    /\ CanCall
    /\ \E company_number, psc_id \in IdValues :
            Invoke("get_corporate_entity_beneficial_owner", <<company_number, psc_id>>,
                   <<>>,
                   get_corporate_entity_beneficial_owner(ch, company_number, psc_id))

\* Mutant: a request whose transport failed is sent a second time.
Respond_Retry ==
    /\ pc = "waiting"
    /\ \E o \in Outcomes :
         /\ outcome' = o
         /\ result' = send_request_return(o)
         /\ log' = Append(log, send_request_return(o).kind)
         /\ wire' = IF o.kind = "error" THEN wire \o wire ELSE wire
         /\ sent' = IF o.kind = "error" THEN sent + Len(wire) ELSE sent
    /\ pc' = "returned"
    /\ UNCHANGED <<environ, APIpaths, ch, ctor, call, calls>>

\* requests.request ends: the remote answered with some status code, or the
\* transport failed; the method gives its caller what __send_request gives.
Respond ==
    /\ pc = "waiting"
    /\ \E o \in Outcomes :
         /\ outcome' = o
         /\ result' = send_request_return(o)
         /\ log' = Append(log, send_request_return(o).kind)
    /\ pc' = "returned"
    /\ UNCHANGED <<environ, APIpaths, ch, ctor, call, wire, calls, sent>>

\* The caller has the result of its call and goes on.
CallerContinues ==
    /\ pc = "returned"
    /\ pc' = "idle"
    /\ call' = NoCall
    /\ wire' = <<>>
    /\ outcome' = NoOutcome
    /\ result' = NoResult
    /\ UNCHANGED <<environ, APIpaths, ch, ctor, calls, sent, log>>

Next ==
    \/ SetEnv
    \/ Construct
    \/ Call_get_company_profile
    \/ Call_advanced_company_search
    \/ Call_search_all
    \/ Call_search_companies
    \/ Call_search_officers
    \/ Call_search_disqualified_officers
    \/ Call_search_companies_alphabetically
    \/ Call_search_dissolved_companies
    \/ Call_get_officers
    \/ Call_get_company_officer_appointment
    \/ Call_get_company_registers
    \/ Call_get_comapany_charges
    \/ Call_get_company_charge
    \/ Call_get_company_filing_history
    \/ Call_get_company_filing_history_item
    \/ Call_get_company_insolvency_information
    \/ Call_get_company_exemptions_information
    \/ Call_get_cooporate_officer_disqualifications
    \/ Call_get_natural_officer_disqualifications
    \/ Call_get_officer_appointments
    \/ Call_get_company_uk_enstablishment
    \/ Call_get_persons_with_significant_control
    \/ Call_get_persons_with_significant_control_statements
    \/ Call_get_the_super_secure_person_with_significant_control
    \/ Call_get_the_super_secure_beneficial_owner
    \/ Call_get_person_with_significant_control_statement
    \/ Call_get_legal_person_with_significant_control
    \/ Call_get_legal_person_beneficial_owner
    \/ Call_get_individual_person_with_significant_control
    \/ Call_get_individual_beneficial_owner
    \/ Call_get_corporate_entity_with_significant_control
    \/ Call_get_corporate_entity_beneficial_owner
    \/ Respond
    \/ CallerContinues

Spec == Init /\ [][Next]_vars

(***************************************************************************)
(* Several callers on one client.  Under ConcSpec the client is already    *)
(* constructed and pc, call, wire, outcome and result hold one value per   *)
(* caller.  A call takes four steps, and the steps of different callers    *)
(* interleave in every order:                                              *)
(*   T_<method>  the method is entered: it builds its segments and         *)
(*               parameters and calls __send_request;                      *)
(*   T_Send      __send_request reads self.host and self.headers, builds   *)
(*               the URL and hands the request to the transport;           *)
(*   T_Respond   the transport ends the caller's own requests.request      *)
(*               call, with a response to that request or with a failure;  *)
(*   T_Return    the caller has taken the result and goes on.              *)
(* log, the single caller's history of results, is not kept here.          *)
(***************************************************************************)
\* The number of callers.
NumCallers == 2
Callers == 1..NumCallers

\* The arguments the concurrent callers pass.
ConcIds == {str("A"), str("B")}
ConcOfficersKwargs ==
    { [items_per_page |-> None, register_type |-> rt, register_view |-> None,
       start_index |-> None, order_by |-> None] : rt \in {None, str("x")} }
ConcSearchDefaults == [items_per_page |-> None, start_index |-> None, restrictions |-> None]

ConcInit ==
    /\ environ = [COMPANIES_HOUSE_HOST |-> str("https://host"),
                  COMPANIES_HOUSE_APIKEY |-> str("key1")]
    /\ APIpaths = APIpathsTable
    /\ ctor = [called |-> TRUE, raised |-> CompaniesHouse_init.raised,
               self |-> CompaniesHouse_init.self]
    /\ ch = CompaniesHouse_init.self
    /\ pc = [t \in Callers |-> "idle"]
    /\ call = [t \in Callers |-> NoCall]
    /\ wire = [t \in Callers |-> <<>>]
    /\ outcome = [t \in Callers |-> NoOutcome]
    /\ result = [t \in Callers |-> NoResult]
    /\ calls = 0
    /\ sent = 0
    /\ log = <<>>

\* Caller t holds the client and is not inside a call.
T_CanCall(t) ==
    /\ pc[t] = "idle"
    /\ calls < MaxCalls

\* Caller t enters a public method; r is what the method's __send_request
\* call is given (its frame).
T_Invoke(t, method, ids, given, r) ==
    /\ call' = [call EXCEPT ![t] = [method |-> method, ids |-> ids, given |-> given,
                                    frame |-> r.frame]]
    /\ pc' = [pc EXCEPT ![t] = "entered"]
    /\ calls' = calls + 1
    /\ UNCHANGED <<environ, APIpaths, ch, ctor, wire, outcome, result, sent, log>>

T_get_company_profile(t) ==
    /\ T_CanCall(t)
    /\ \E company_number \in ConcIds :
            T_Invoke(t, "get_company_profile", <<company_number>>, <<>>,
                     get_company_profile(ch, company_number))

T_get_officers(t) ==
    /\ T_CanCall(t)
    /\ \E company_number \in ConcIds :
       \E kw \in ConcOfficersKwargs :
            T_Invoke(t, "get_officers", <<company_number>>, kw,
                     get_officers(ch, company_number, kw.items_per_page,
                                  kw.register_type, kw.register_view,
                                  kw.start_index, kw.order_by))

T_search_companies(t) ==
    /\ T_CanCall(t)
    /\ \E q \in QValues :
            T_Invoke(t, "search_companies", <<>>, ("q" :> q) @@ ConcSearchDefaults,
                     search_companies(ch, q, None, None, None))

\* Mutant: the segments and parameters are kept on the client object, so
\* __send_request sends those of whichever caller stored them last.
T_Send_SharedFrame(t) ==
    /\ pc[t] = "entered"
    /\ \E u \in Callers :
         /\ pc[u] # "idle"
         /\ LET f == call[u].frame
                r == send_request(ch, f.request_type, f.res, f.params)
            IN  /\ wire' = [wire EXCEPT ![t] = r.sent]
                /\ sent' = sent + Len(r.sent)
                /\ pc' = [pc EXCEPT ![t] = "waiting"]
    /\ UNCHANGED <<environ, APIpaths, ch, ctor, call, outcome, result, calls, log>>

\* __send_request of caller t, up to the point where it blocks in
\* requests.request.
T_Send(t) ==
    /\ pc[t] = "entered"
    /\ LET f == call[t].frame
           r == send_request(ch, f.request_type, f.res, f.params)
       IN  /\ wire' = [wire EXCEPT ![t] = r.sent]
           /\ sent' = sent + Len(r.sent)
           /\ IF r.raised = ""
                THEN /\ pc' = [pc EXCEPT ![t] = "waiting"]
                     /\ UNCHANGED result
              ELSE /\ pc' = [pc EXCEPT ![t] = "returned"]
                   /\ result' = [result EXCEPT
                                   ![t] = [kind |-> "raise", exc |-> r.raised]]
    /\ UNCHANGED <<environ, APIpaths, ch, ctor, call, outcome, calls, log>>

\* What the transport can do with a request: answer it, the response naming
\* the request it answers (Response.request), or fail.
OutcomesOf(req) ==
    { [kind |-> "response", response |-> [status_code |-> s, request |-> req]] :
        s \in StatusCodes }
    \cup { [kind |-> "error", exc |-> e] : e \in TransportErrors }

\* requests.request of caller t ends and the method gives its caller what
\* __send_request gives.
T_Respond(t) ==
    /\ pc[t] = "waiting"
    /\ \E o \in OutcomesOf(wire[t][1]) :
         /\ outcome' = [outcome EXCEPT ![t] = o]
         /\ result' = [result EXCEPT ![t] = send_request_return(o)]
    /\ pc' = [pc EXCEPT ![t] = "returned"]
    /\ UNCHANGED <<environ, APIpaths, ch, ctor, call, wire, calls, sent, log>>

\* Caller t has the result of its call and goes on.
T_Return(t) ==
    /\ pc[t] = "returned"
    /\ pc' = [pc EXCEPT ![t] = "idle"]
    /\ call' = [call EXCEPT ![t] = NoCall]
    /\ wire' = [wire EXCEPT ![t] = <<>>]
    /\ outcome' = [outcome EXCEPT ![t] = NoOutcome]
    /\ result' = [result EXCEPT ![t] = NoResult]
    /\ UNCHANGED <<environ, APIpaths, ch, ctor, calls, sent, log>>

ConcNext ==
    \E t \in Callers :
        \/ T_get_company_profile(t)
        \/ T_get_officers(t)
        \/ T_search_companies(t)
        \/ T_Send(t)
        \/ T_Respond(t)
        \/ T_Return(t)

ConcSpec == ConcInit /\ [][ConcNext]_vars

(***************************************************************************)
(* Claims                                                                  *)
(***************************************************************************)
\* The values os.getenv gives for a variable that is absent or empty.
AbsentOrEmpty == {None, str("")}

\* C1: a constructor call that reads an absent or empty COMPANIES_HOUSE_HOST
\* raises ValueError whatever the API key is, gives the caller no client,
\* and no request has been handed to the transport.
C1_HostMissingFails ==
    (ctor.called /\ ctor.self.host \in AbsentOrEmpty) =>
        /\ ctor.raised = "ValueError"
        /\ ch = NoClient
        /\ sent = 0
        /\ wire = <<>>
        /\ calls = 0

\* C1 witness: the host is the empty string, the key is set, and the
\* constructor raised.
C1_Witness ==
    /\ ctor.called
    /\ ctor.self.host = str("")
    /\ ctor.self.api_key = str("key1")
    /\ ctor.raised = "ValueError"
    /\ ch = NoClient

\* C2: a constructor call that reads a host but an absent or empty
\* COMPANIES_HOUSE_APIKEY raises ValueError and gives the caller no client;
\* a client the caller holds always has a host, a key and the Authorization
\* header made of that key.
C2_KeyMissingFails ==
    /\ (ctor.called /\ ctor.self.host \notin AbsentOrEmpty
                    /\ ctor.self.api_key \in AbsentOrEmpty) =>
           (ctor.raised = "ValueError" /\ ch = NoClient)
    /\ ch # NoClient =>
           /\ DOMAIN ch = {"host", "api_key", "headers"}
           /\ ch.host \notin AbsentOrEmpty
           /\ ch.api_key \notin AbsentOrEmpty
           /\ ch.headers = [Authorization |-> ch.api_key]

\* C2 witness: the host is set, the key is the empty string, and the
\* constructor raised.
C2_Witness ==
    /\ ctor.called
    /\ ctor.self.host = str("https://host")
    /\ ctor.self.api_key = str("")
    /\ ctor.raised = "ValueError"
    /\ ch = NoClient

\* The named query arguments of the call in progress that the caller left None.
UnsetKeys == {k \in DOMAIN call.given : call.given[k] = None}

\* The keys of the query parameters of a request.
QueryKeys(req) == {req.params[j][1] : j \in 1..Len(req.params)}

\* C3: no request carries a query parameter under the key of an argument the
\* caller left None, and search_companies(q) alone sends exactly the key q.
C3_UnsetParamsAbsent ==
    pc # "idle" =>
        /\ \A i \in 1..Len(wire) : QueryKeys(wire[i]) \cap UnsetKeys = {}
        /\ (call.method = "search_companies" /\ UnsetKeys = DOMAIN call.given \ {"q"}) =>
               /\ Len(wire) = 1
               /\ Len(wire[1].params) = 1
               /\ wire[1].params[1] = <<"q", call.given["q"].val>>

\* C3 witness: search_companies("Swishfund") is in flight with q as its only
\* query parameter.
C3_Witness ==
    /\ pc = "waiting"
    /\ call.method = "search_companies"
    /\ call.given["q"] = str("Swishfund")
    /\ UnsetKeys = {"items_per_page", "start_index", "restrictions"}
    /\ wire[1].params = << <<"q", "Swishfund">> >>
    /\ wire[1].url = "https://host/search/companies"

\* The resource names of the path table, as written in the source.
PathNames == {APIpathsTable[k] : k \in DOMAIN APIpathsTable}
IsIdentifier(s) == s \notin PathNames

\* host + "/" + segment_1 + "/" + segment_2 + ...
RECURSIVE UrlOf(_, _)
UrlOf(host, segs) ==
    IF segs = <<>> THEN host
    ELSE UrlOf(host, SubSeq(segs, 1, Len(segs) - 1)) \o "/" \o segs[Len(segs)].val

\* The call in progress is of a method with path identifiers, all of them
\* given as strings.
IdentifiersGiven ==
    /\ pc # "idle"
    /\ Len(call.ids) > 0
    /\ \A i \in 1..Len(call.ids) : call.ids[i].type = "str"

\* C4: for every method with path identifiers other than get_company_charge,
\* the URL is the host followed by "/" and each segment in order; the
\* identifiers among the segments are the caller's identifiers, each once and
\* in the order of the arguments; the path starts with a resource name, every
\* identifier follows a resource name, and no resource name comes twice.
C4_PathSegmentsInOrder ==
    (IdentifiersGiven /\ call.method # "get_company_charge") =>
        LET res == call.frame.res
        IN  /\ Len(wire) = 1
            /\ wire[1].url = UrlOf(ctor.self.host.val, res)
            /\ SelectSeq(res, IsIdentifier) = call.ids
            /\ res[1] \in PathNames
            /\ \A i \in 2..Len(res) : IsIdentifier(res[i]) => res[i-1] \in PathNames
            /\ \A i, j \in 1..Len(res) :
                   (i < j /\ res[i] \in PathNames) => res[i] # res[j]

\* C4 witness: get_company_officer_appointment("A", "B", "A") is in flight.
C4_Witness ==
    /\ pc = "waiting"
    /\ call.method = "get_company_officer_appointment"
    /\ call.ids = <<str("A"), str("B"), str("A")>>
    /\ wire[1].url = "https://host/company/A/officers/B/appointments/A"

\* C5: get_company_charge requests host/company/<number>/<number>/charges/<id>,
\* which is not the URL of the shape company/{number}/charges/{id}.
C5_ChargeNumberTwice ==
    (IdentifiersGiven /\ call.method = "get_company_charge") =>
        LET number == call.ids[1].val
            id == call.ids[2].val
            host == ctor.self.host.val
        IN  /\ Len(wire) = 1
            /\ wire[1].url = host \o "/company/" \o number \o "/" \o number
                                  \o "/charges/" \o id
            /\ wire[1].url # host \o "/company/" \o number \o "/charges/" \o id

\* C5 witness: get_company_charge("A", "B") is in flight.
C5_Witness ==
    /\ pc = "waiting"
    /\ call.method = "get_company_charge"
    /\ call.ids = <<str("A"), str("B")>>
    /\ wire[1].url = "https://host/company/A/A/charges/B"

\* C6: every request is a GET, the headers the client gives it are the one
\* header Authorization with the key the constructor read, and it has no body.
C6_GetWithKeyNoBody ==
    \A i \in 1..Len(wire) :
        /\ wire[i].method = "GET"
        /\ DOMAIN wire[i].headers = {"Authorization"}
        /\ wire[i].headers.Authorization = ctor.self.api_key
        /\ wire[i].body = None

\* C6 witness: a request is in flight with the key read at construction
\* while the environment no longer holds that key.
C6_Witness ==
    /\ pc = "waiting"
    /\ environ.COMPANIES_HOUSE_APIKEY = None
    /\ wire[1].method = "GET"
    /\ wire[1].headers.Authorization = str("key1")

\* C7: the number of requests sent equals the number of calls made, each call
\* in progress or just finished has sent exactly one request, whatever its
\* outcome.
C7_OneRequestPerCall ==
    /\ sent = calls
    /\ pc # "idle" => Len(wire) = 1
    /\ Len(log) = IF pc = "waiting" THEN calls - 1 ELSE calls

\* C7 witness: two calls were made, the first got a transport failure and the
\* second a 500, and two requests were sent.
C7_Witness ==
    /\ calls = 2
    /\ sent = 2
    /\ pc = "returned"
    /\ log = <<"raise", "return">>
    /\ outcome.kind = "response"
    /\ outcome.response.status_code = 500

IsGiven(v) == v # None

\* C10: once the caller holds a client, no step changes its host, key or
\* headers, and no step changes the path table; a request carries the key and
\* starts with the host the client holds, whatever the environment holds when
\* the request is sent.
C10_ConfigurationFrozen ==
    /\ [][(ch # NoClient => ch' = ch) /\ APIpaths' = APIpaths]_vars
    /\ [](APIpaths = APIpathsTable)
    /\ [](\A i \in 1..Len(wire) :
             /\ wire[i].headers = [Authorization |-> ch.api_key]
             /\ wire[i].url = UrlOf(ch.host.val, SelectSeq(call.frame.res, IsGiven)))

\* C10 witness: after a first call and a change of both environment variables,
\* a second call is in flight on the client as constructed.
C10_Witness ==
    /\ calls = 2
    /\ pc = "waiting"
    /\ environ = [COMPANIES_HOUSE_HOST |-> None, COMPANIES_HOUSE_APIKEY |-> str("")]
    /\ ch = [host |-> str("https://host"), api_key |-> str("key1"),
             headers |-> [Authorization |-> str("key1")]]
    /\ wire[1].url = "https://host/company/A"

\* What the call c sends when it runs with no other call in progress.
AloneCall(c) ==
    CASE c.method = "get_company_profile" -> get_company_profile(ch, c.ids[1])
      [] c.method = "get_officers" ->
            get_officers(ch, c.ids[1], c.given["items_per_page"],
                         c.given["register_type"], c.given["register_view"],
                         c.given["start_index"], c.given["order_by"])
      [] c.method = "search_companies" ->
            search_companies(ch, c.given["q"], c.given["items_per_page"],
                             c.given["start_index"], c.given["restrictions"])

\* C11: with several callers on one client, under every interleaving a call's
\* segments and parameters are those its own arguments give, the request it
\* sends is the request it sends when run alone, the response it returns is
\* the response to its own request, and no step of another caller changes a
\* call's segments, parameters or request.
C11_CallersDoNotInterfere ==
    /\ [](\A t \in Callers :
            /\ pc[t] # "idle" => call[t].frame = AloneCall(call[t]).frame
            /\ pc[t] \in {"waiting", "returned"} => wire[t] = AloneCall(call[t]).sent
            /\ (pc[t] = "returned" /\ outcome[t].kind = "response") =>
                   /\ result[t] = [kind |-> "return", value |-> outcome[t].response]
                   /\ result[t].value.request = wire[t][1])
    /\ [][\A t \in Callers :
            /\ (pc[t] # "idle" /\ pc'[t] # "idle") => call'[t] = call[t]
            /\ (pc[t] = "waiting" /\ pc'[t] # "idle") => wire'[t] = wire[t]]_vars

\* C11 witness: caller 1 holds the response to its own request for company A
\* while caller 2's request for the officers of company B is in flight.
C11_Witness ==
    /\ pc[1] = "returned"
    /\ call[1].method = "get_company_profile"
    /\ result[1].kind = "return"
    /\ result[1].value.request.url = "https://host/company/A"
    /\ pc[2] = "waiting"
    /\ call[2].method = "get_officers"
    /\ wire[2][1].url = "https://host/company/B/officers"
    /\ wire[2][1].params = << <<"register_type", "x">> >>
    /\ wire[2][1].headers = [Authorization |-> str("key1")]

\* The keys of the params dictionary the method in progress hands to
\* __send_request.
MethodKeys == {call.frame.params[j][1] : j \in 1..Len(call.frame.params)}

\* advanced_company_search is in progress with company_name_includes as the
\* only argument the caller set.
OnlyNameIncludesSet ==
    /\ pc # "idle"
    /\ call.method = "advanced_company_search"
    /\ call.given["company_name_includes"] # None
    /\ UnsetKeys = DOMAIN call.given \ {"company_name_includes"}

\* C12 as stated: advanced_company_search with only company_name_includes set
\* sends exactly one query parameter, company_name_includes with the given
\* value, and the method's other keys, eleven of them, are all absent.
C12_Original ==
    OnlyNameIncludesSet =>
        /\ Len(wire) = 1
        /\ wire[1].params =
              << <<"company_name_includes", Render(call.given["company_name_includes"])>> >>
        /\ Cardinality(MethodKeys \ {"company_name_includes"}) = 11
        /\ QueryKeys(wire[1]) \cap (MethodKeys \ {"company_name_includes"}) = {}

\* C12 (amended): advanced_company_search with only company_name_includes set
\* sends exactly one query parameter, company_name_includes with the given
\* value, and the method's twelve other keys (ten filters, size and
\* start_index) are all absent from the query string.
C12_OnlyNameIncludesSent ==
    OnlyNameIncludesSet =>
        /\ Len(wire) = 1
        /\ wire[1].params =
              << <<"company_name_includes", Render(call.given["company_name_includes"])>> >>
        /\ MethodKeys \ {"company_name_includes"} =
              {"company_name_excludes", "company_status", "company_subtype",
               "company_type", "dissolved_from", "dissolved_to",
               "incorporated_from", "incorporated_to", "location", "sic_codes",
               "size", "start_index"}
        /\ Cardinality(MethodKeys \ {"company_name_includes"}) = 12
        /\ QueryKeys(wire[1]) \cap (MethodKeys \ {"company_name_includes"}) = {}

\* C12 witness: advanced_company_search(company_name_includes="x") is in
\* flight with that pair as its whole query string.
C12_Witness ==
    /\ OnlyNameIncludesSet
    /\ pc = "waiting"
    /\ call.given["company_name_includes"] = str("x")
    /\ wire[1].url = "https://host/advanced-search/companies"
    /\ wire[1].params = << <<"company_name_includes", "x">> >>

\* The named arguments of the call in progress that the caller set.
SetKeys == DOMAIN call.given \ UnsetKeys

\* C13: every call sends its request without a local error, the query string
\* has one pair for each named argument the caller set, under the argument's
\* own name and with the caller's value, and it has no other pair, so no
\* identifier travels in the query string.
C13_SetParamsForwardedVerbatim ==
    pc # "idle" =>
        /\ Len(wire) = 1
        /\ result.kind = "raise" => result.exc \in TransportErrors
        /\ \A k \in SetKeys :
              \E j \in 1..Len(wire[1].params) :
                  wire[1].params[j] = <<k, Render(call.given[k])>>
        /\ Len(wire[1].params) = Cardinality(SetKeys)

\* C13 witness: get_officers("A", register_type="x"), a register type the
\* remote service does not know, is in flight with that value in the query
\* string and the company number in the path only.
C13_Witness ==
    /\ pc = "waiting"
    /\ call.method = "get_officers"
    /\ call.ids = <<str("A")>>
    /\ call.given["register_type"] = str("x")
    /\ wire[1].url = "https://host/company/A/officers"
    /\ wire[1].params = << <<"register_type", "x">> >>

\* The path-table entry of each typed person-with-significant-control detail
\* method.
TypedPscSegment ==
    [get_individual_person_with_significant_control |-> APIpaths.individual,
     get_individual_beneficial_owner |-> APIpaths.individual_beneficial_owner,
     get_corporate_entity_with_significant_control |-> APIpaths.corporate_entity,
     get_corporate_entity_beneficial_owner |-> APIpaths.corporate_entity_beneficial_owner,
     get_legal_person_with_significant_control |-> APIpaths.legal_person,
     get_legal_person_beneficial_owner |-> APIpaths.legal_person_beneficial_owner,
     get_the_super_secure_person_with_significant_control |-> APIpaths.super_secure,
     get_the_super_secure_beneficial_owner |-> APIpaths.super_secure_beneficial_owner]

\* C14: each typed person-with-significant-control detail method, called with
\* a company number and an id, requests
\* host/company/<company_number>/persons-with-significant-control/<type-segment>/<id>
\* with its own entry of the path table as <type-segment>.
C14_TypedPscPaths ==
    (IdentifiersGiven /\ call.method \in DOMAIN TypedPscSegment) =>
        /\ Len(wire) = 1
        /\ wire[1].url =
              UrlOf(ch.host.val,
                    <<APIpaths.company, call.ids[1],
                      APIpaths.persons_with_significant_control,
                      TypedPscSegment[call.method], call.ids[2]>>)

\* The segments of the call in progress that are not None, in order.
KeptSegments == SelectSeq(call.frame.res, IsGiven)

\* The text of the segments segs joined by "/", with no "/" in front.
RECURSIVE PathText(_)
PathText(segs) ==
    IF segs = <<>> THEN ""
    ELSE IF Len(segs) = 1 THEN segs[1].val
    ELSE segs[1].val \o "/" \o PathText(Tail(segs))

\* The URL reads: host, the first i - 1 kept segments, the text gap, and then
\* the kept segments after the i-th.
UrlHasAt(url, i, gap) ==
    url = UrlOf(ch.host.val, SubSeq(KeptSegments, 1, i - 1)) \o gap
          \o PathText(SubSeq(KeptSegments, i + 1, Len(KeptSegments)))

\* The URL has two consecutive slashes after the host.
HasDoubleSlash(url) ==
    \E i \in 1..(Len(KeptSegments) - 1) : UrlHasAt(url, i, "//")

\* The URL has the text None as a segment.
HasNoneSegment(url) ==
    \/ \E i \in 1..(Len(KeptSegments) - 1) : UrlHasAt(url, i, "/None/")
    \/ UrlHasAt(url, Len(KeptSegments), "/None")

\* C15 as stated: the URL is the host followed by "/" + s for each segment s
\* that is not None, in order; it never has two consecutive slashes after the
\* host and never has the text None as a segment.
C15_Original ==
    pc # "idle" =>
        /\ Len(wire) = 1
        /\ wire[1].url = UrlOf(ch.host.val, KeptSegments)
        /\ ~HasDoubleSlash(wire[1].url)
        /\ ~HasNoneSegment(wire[1].url)

\* C15 (amended): the URL is the host followed by "/" + s for each segment s
\* that is not None, in order; it never has the text None as a segment, and
\* it has two consecutive slashes after the host exactly when a segment that
\* is not the last kept one is the empty string.
C15_AbsentSegmentsSkipped ==
    pc # "idle" =>
        /\ Len(wire) = 1
        /\ wire[1].url = UrlOf(ch.host.val, KeptSegments)
        /\ ~HasNoneSegment(wire[1].url)
        /\ HasDoubleSlash(wire[1].url) <=>
              \E i \in 1..(Len(KeptSegments) - 1) : KeptSegments[i] = str("")

\* C15 witness: get_person_with_significant_control_statement(None, "B") is in
\* flight; the absent company number left no segment and no second slash.
C15_Witness ==
    /\ pc = "waiting"
    /\ call.method = "get_person_with_significant_control_statement"
    /\ call.ids = <<None, str("B")>>
    /\ Len(KeptSegments) = 3
    /\ wire[1].url = "https://host/company/persons-with-significant-control-statements/B"
    /\ ~HasDoubleSlash(wire[1].url)

\* The pairs of the query string of a request.
QueryPairs(req) == {req.params[j] : j \in 1..Len(req.params)}

\* C16: a named argument given as the integer 0 is sent as <key>=0 and one
\* given as the empty string is sent as <key>= with an empty value; neither
\* is dropped.
C16_FalsyValuesSent ==
    pc # "idle" =>
        \A k \in DOMAIN call.given :
            /\ call.given[k] = int(0) =>
                  (Len(wire) = 1 /\ <<k, "0">> \in QueryPairs(wire[1]))
            /\ call.given[k] = str("") =>
                  (Len(wire) = 1 /\ <<k, "">> \in QueryPairs(wire[1]))

\* C16 witness: search_all("", start_index=0) is in flight with both the
\* empty q and start_index=0 in the query string.
C16_Witness ==
    /\ pc = "waiting"
    /\ call.method = "search_all"
    /\ call.given["q"] = str("")
    /\ call.given["start_index"] = int(0)
    /\ wire[1].params = << <<"q", "">>, <<"start_index", "0">> >>

\* A method with path identifiers is in progress.
HasIdentifiers ==
    /\ pc # "idle"
    /\ Len(call.ids) > 0

\* C17: a call whose identifiers include None raises no local error and
\* sends its request; the None identifiers leave no segment, so the URL is
\* that of a shorter path (get_company_profile(None): host/company,
\* get_officers(None): host/company/officers), while an identifier given as
\* the empty string stays as an empty segment (get_company_profile(""):
\* host/company/, get_officers(""): host/company//officers).
C17_NoneIdentifierDropped ==
    HasIdentifiers =>
        /\ Len(wire) = 1
        /\ result.kind = "raise" => result.exc \in TransportErrors
        /\ call.method # "get_company_charge" =>
              SelectSeq(KeptSegments, IsIdentifier) = SelectSeq(call.ids, IsGiven)
        /\ (\E i \in 1..Len(call.ids) : call.ids[i] = None) =>
              Len(KeptSegments) < Len(call.frame.res)
        /\ (call.method = "get_company_profile" /\ call.ids = <<None>>) =>
              wire[1].url = ch.host.val \o "/company"
        /\ (call.method = "get_officers" /\ call.ids = <<None>>) =>
              wire[1].url = ch.host.val \o "/company/officers"
        /\ (call.method = "get_company_profile" /\ call.ids = <<str("")>>) =>
              wire[1].url = ch.host.val \o "/company/"
        /\ (call.method = "get_officers" /\ call.ids = <<str("")>>) =>
              wire[1].url = ch.host.val \o "/company//officers"

\* C17 witness: get_officers(None) got the response to its request for
\* host/company/officers and returned it.
C17_Witness ==
    /\ pc = "returned"
    /\ call.method = "get_officers"
    /\ call.ids = <<None>>
    /\ wire[1].url = "https://host/company/officers"
    /\ result.kind = "return"

====
